---- MODULE Spec2Model ----
(***************************************************************************)
(* Model of the bootstrap sequencer of src/blah.cpp: main() runs           *)
(* HelloTriangleApplication::run(), which creates the window, the Vulkan   *)
(* instance, the optional debug messenger, picks a physical device,        *)
(* creates the logical device, idles in mainLoop() and finally cleans up.  *)
(* The windowing library and the Vulkan driver are the environment: every  *)
(* result they hand back is chosen nondeterministically at the call.       *)
(***************************************************************************)
EXTENDS Integers, Sequences, FiniteSets, TLC

\* ------------------------------------------------------------------ bounds
MaxFamilies == 3        \* longest queue-family table of the scan specification
MaxDevices == 3         \* longest device list of the selection specification
MaxDevFamilies == 2     \* longest queue-family table of a device in a device list
MaxRunDevices == 2      \* longest device list the driver reports in a full run
MaxRequested == 2       \* longest requested-layer list of the layer specification
MaxInstalled == 2       \* longest installed-layer list
MaxPolls == 2           \* idle iterations counted before the counter saturates
MaxExtensions == 3      \* longest extension list the windowing library returns

\* --------------------------------------------------------------- constants
VK_QUEUE_GRAPHICS_BIT == 1
VK_NULL_HANDLE == 0
EXIT_SUCCESS == 0
EXIT_FAILURE == 1

VK_SUCCESS == "VK_SUCCESS"
VK_ERROR_EXTENSION_NOT_PRESENT == "VK_ERROR_EXTENSION_NOT_PRESENT"
VK_ERROR_INITIALIZATION_FAILED == "VK_ERROR_INITIALIZATION_FAILED"
VkResults == {VK_SUCCESS, VK_ERROR_INITIALIZATION_FAILED}

validationLayers == <<"VK_LAYER_KHRONOS_validation">>

\* layer names a host may have installed (one differs from the requested
\* name only by case, one is a different layer)
LayerNames ==
    {"VK_LAYER_KHRONOS_validation", "vk_layer_khronos_validation",
     "VK_LAYER_LUNARG_api_dump"}

\* capability masks of a queue family: graphics, compute, graphics|compute,
\* transfer
QueueFlagValues == {1, 2, 3, 4}

\* capability masks used in the device lists: graphics, compute
DeviceFlagValues == {1, 2}

NoException == "none"
LayersUnavailable == "validation layers requested, but not available!"
InstanceFailed == "failed to create instance!"
MessengerFailed == "failed to set up debug messenger!"
NoDeviceFound == "failed to find GPUs with Vulkan support!"
NoSuitableDevice == "failed to find a suitable GPU!"
DeviceFailed == "failed to create logical device!"
BadOptionalAccess == "bad optional access"

\* ----------------------------------------------------------------- helpers
SeqsUpTo(S, n) == UNION {[1..k -> S] : k \in 0..n}

RECURSIVE BitAnd(_, _)
BitAnd(a, b) ==
    IF a = 0 \/ b = 0 THEN 0
    ELSE (IF a % 2 = 1 /\ b % 2 = 1 THEN 1 ELSE 0) + 2 * BitAnd(a \div 2, b \div 2)

RECURSIVE Reverse(_)
Reverse(s) == IF s = <<>> THEN <<>> ELSE Append(Reverse(Tail(s)), Head(s))

IsPrefix(s, t) == Len(s) <= Len(t) /\ SubSeq(t, 1, Len(s)) = s

Range(s) == {s[k] : k \in 1..Len(s)}

\* ------------------------------------------------- QueueFamilyIndices (62-70)
\* std::optional<uint32_t> graphicsFamily, empty after construction
EmptyIndices == [has_value |-> FALSE, value |-> 0]

isComplete(indices) == indices.has_value

\* ------------------------------------------------ findQueueFamilies (314-342)
\* the loop of lines 325-339 from position pos (1-based) with counter i;
\* examined counts the families whose flags were read
RECURSIVE ScanQueueFamilies_NoBreak(_, _, _, _)
ScanQueueFamilies_NoBreak(queueFamilies, pos, i, indices) ==
    IF pos > Len(queueFamilies)
    THEN [indices |-> indices, examined |-> pos - 1]
    ELSE LET found == BitAnd(queueFamilies[pos], VK_QUEUE_GRAPHICS_BIT) # 0
             next == IF found THEN [has_value |-> TRUE, value |-> i] ELSE indices
         IN  ScanQueueFamilies_NoBreak(queueFamilies, pos + 1, i + 1, next)

RECURSIVE ScanQueueFamilies(_, _, _, _)
ScanQueueFamilies(queueFamilies, pos, i, indices) ==
    IF pos > Len(queueFamilies)
    THEN [indices |-> indices, examined |-> pos - 1]
    ELSE LET found == BitAnd(queueFamilies[pos], VK_QUEUE_GRAPHICS_BIT) # 0
             next == IF found THEN [has_value |-> TRUE, value |-> i] ELSE indices
         IN  IF isComplete(next)
             THEN [indices |-> next, examined |-> pos]
             ELSE ScanQueueFamilies(queueFamilies, pos + 1, i + 1, next)

findQueueFamilies(queueFamilies) ==
    ScanQueueFamilies(queueFamilies, 1, 0, EmptyIndices).indices

\* ------------------------------------------------- isDeviceSuitable (305-310)
isDeviceSuitable(queueFamilies) == isComplete(findQueueFamilies(queueFamilies))

\* --------------------------------------- pickPhysicalDevice, loop of 234-241
\* a physical device handle is the device's 1-based position in the list the
\* driver reports; checked lists the handles isDeviceSuitable was called on
RECURSIVE SelectDevice_NoBreak(_, _, _, _)
SelectDevice_NoBreak(devices, pos, physicalDevice, checked) ==
    IF pos > Len(devices)
    THEN [physicalDevice |-> physicalDevice, checked |-> checked]
    ELSE SelectDevice_NoBreak(devices, pos + 1,
             IF isDeviceSuitable(devices[pos]) THEN pos ELSE physicalDevice,
             Append(checked, pos))

RECURSIVE SelectDevice_Fallback(_, _, _, _)
SelectDevice_Fallback(devices, pos, physicalDevice, checked) ==
    IF pos > Len(devices)
    THEN [physicalDevice |-> IF Len(devices) > 0 THEN 1 ELSE physicalDevice,
          checked |-> checked]
    ELSE IF isDeviceSuitable(devices[pos])
         THEN [physicalDevice |-> pos, checked |-> Append(checked, pos)]
         ELSE SelectDevice_Fallback(devices, pos + 1, physicalDevice, Append(checked, pos))

RECURSIVE SelectDevice(_, _, _, _)
SelectDevice(devices, pos, physicalDevice, checked) ==
    IF pos > Len(devices)
    THEN [physicalDevice |-> physicalDevice, checked |-> checked]
    ELSE IF isDeviceSuitable(devices[pos])
         THEN [physicalDevice |-> pos, checked |-> Append(checked, pos)]
         ELSE SelectDevice(devices, pos + 1, physicalDevice, Append(checked, pos))

\* --------------------------------------- checkValidationLayerSupport (369-401)
\* strcmp(a, b) == 0: the two C strings are equal byte for byte
StrCmpEqual(a, b) == a = b

\* inner loop of lines 385-392
LayerFound(layerName, availableLayers) ==
    \E k \in 1..Len(availableLayers) : StrCmpEqual(layerName, availableLayers[k])

RECURSIVE checkValidationLayerSupport_AnyFound(_, _)
checkValidationLayerSupport_AnyFound(layers, availableLayers) ==
    IF layers = <<>> THEN FALSE
    ELSE IF LayerFound(Head(layers), availableLayers) THEN TRUE
         ELSE checkValidationLayerSupport_AnyFound(Tail(layers), availableLayers)

RECURSIVE checkValidationLayerSupport(_, _)
checkValidationLayerSupport(layers, availableLayers) ==
    IF layers = <<>> THEN TRUE
    ELSE IF ~LayerFound(Head(layers), availableLayers) THEN FALSE
         ELSE checkValidationLayerSupport(Tail(layers), availableLayers)

\* ------------------------------------------------------------------- state
VARIABLES
    enableValidationLayers, \* line 22-26, fixed at build time
    pc,                     \* the call main()/run()/initVulkan() makes next
    state,                  \* state of the bootstrap sequence
    trace,                  \* every state entered so far, in order
    h,                      \* status of each handle the application holds
    physicalDevice,         \* line 88
    devices,                \* the device list the driver reported (line 230)
    checked,                \* handles isDeviceSuitable was called on
    queueBinding,           \* <<family, slot>> the queue handle was fetched for
    layerSupport,           \* what checkValidationLayerSupport returned
    created,                \* handles in order of successful creation
    released,               \* handles in order of release
    calls,                  \* every library / driver call made, with its result
    shouldClose,            \* the window's close flag
    polls,                  \* glfwPollEvents calls made (saturating)
    cleanupStep,            \* statement of cleanup() executed next
    exception,              \* what() of the exception in flight or caught
    reported,               \* what main() wrote to std::cerr
    exitCode,               \* <<>> until main() returns, then <<code>>
    fnArgs, fnResult, fnReturned \* argument and result of a single function call

runVars ==
    <<enableValidationLayers, pc, state, trace, h, physicalDevice, devices, checked,
      queueBinding, layerSupport, created, released, calls, shouldClose, polls,
      cleanupStep, exception, reported, exitCode>>

fnVars == <<fnArgs, fnResult, fnReturned>>

vars == <<runVars, fnVars>>

Handles == {"glfw", "window", "instance", "debugMessenger", "device", "graphicsQueue"}

Call(fn, result) == [fn |-> fn, result |-> result]

Fns(log) == {log[k].fn : k \in 1..Len(log)}

QueueTables(flags, n) == SeqsUpTo(flags, n)

RunDeviceLists == SeqsUpTo(QueueTables(DeviceFlagValues, MaxDevFamilies), MaxRunDevices)

\* ---------------------------------------------------- control flow of run()
\* a throw statement: the exception leaves run() and lands in main()'s handler
\* (lines 422-430); nothing between the throw and the handler runs
Throw_ThenCleanup(msg) ==
    /\ exception' = msg
    /\ pc' = "cleanup"
    /\ state' = "ErrorExit"
    /\ trace' = Append(trace, "ErrorExit")

Throw(msg) ==
    /\ exception' = msg
    /\ pc' = "catch"
    /\ state' = "ErrorExit"
    /\ trace' = Append(trace, "ErrorExit")

\* a step returns normally: the sequence enters state s and calls next
Advance(s, next) ==
    /\ pc' = next
    /\ state' = s
    /\ trace' = Append(trace, s)
    /\ UNCHANGED exception

\* ------------------------------------------------------------------- Init
RunInit(entry) ==
    /\ pc = entry
    /\ state = "Uninitialized"
    /\ trace = <<"Uninitialized">>
    /\ h = [x \in Handles |-> "unset"]
    /\ physicalDevice = VK_NULL_HANDLE
    /\ devices = <<>>
    /\ checked = <<>>
    /\ queueBinding = <<>>
    /\ layerSupport = "unchecked"
    /\ created = <<>>
    /\ released = <<>>
    /\ calls = <<>>
    /\ shouldClose = FALSE
    /\ polls = 0
    /\ cleanupStep = 1
    /\ exception = NoException
    /\ reported = NoException
    /\ exitCode = <<>>

FnIdle ==
    /\ fnArgs = <<>>
    /\ fnResult = <<>>
    /\ fnReturned = FALSE

Init ==
    /\ enableValidationLayers \in BOOLEAN
    /\ RunInit("initWindow")
    /\ FnIdle

\* ------------------------------------------------------ initWindow (93-102)
\* neither glfwInit's nor glfwCreateWindow's result is looked at
InitWindow ==
    /\ pc = "initWindow"
    /\ \E initOk \in BOOLEAN, windowOk \in BOOLEAN :
        LET made == initOk /\ windowOk IN
        /\ (~initOk => ~windowOk)
        /\ h' = [h EXCEPT !["glfw"] = IF initOk THEN "live" ELSE "unset",
                          !["window"] = IF made THEN "live" ELSE "null"]
        /\ created' = created \o (IF initOk THEN <<"glfw">> ELSE <<>>)
                              \o (IF made THEN <<"window">> ELSE <<>>)
        /\ calls' = calls \o <<Call("glfwInit", IF initOk THEN "GLFW_TRUE" ELSE "GLFW_FALSE"),
                               Call("glfwCreateWindow", IF made THEN "window" ELSE "NULL")>>
    /\ Advance("WindowReady", "createInstance")
    /\ UNCHANGED <<enableValidationLayers, physicalDevice, devices, checked, queueBinding,
                   layerSupport, released, shouldClose, polls, cleanupStep, reported,
                   exitCode, fnVars>>

\* --------------------------------------------------- createInstance (138-187)
LayerQueryLog ==
    <<Call("vkEnumerateInstanceLayerProperties", "count"),
      Call("vkEnumerateInstanceLayerProperties", "list")>>

CreateInstance_NoLayerCheck ==
    /\ pc = "createInstance"
    /\ \E availableLayers \in SeqsUpTo(LayerNames, MaxInstalled), result \in VkResults :
        LET supported == checkValidationLayerSupport(validationLayers, availableLayers)
            log == IF enableValidationLayers THEN calls \o LayerQueryLog ELSE calls
        IN
        /\ layerSupport' = IF ~enableValidationLayers THEN "unchecked"
                           ELSE IF supported THEN "supported" ELSE "missing"
        /\ calls' = Append(log, Call("vkCreateInstance", result))
        /\ IF result # VK_SUCCESS
           THEN /\ Throw(InstanceFailed)
                /\ UNCHANGED <<h, created>>
           ELSE /\ h' = [h EXCEPT !["instance"] = "live"]
                /\ created' = Append(created, "instance")
                /\ Advance("InstanceReady", "setupDebugMessenger")
    /\ UNCHANGED <<enableValidationLayers, physicalDevice, devices, checked, queueBinding,
                   released, shouldClose, polls, cleanupStep, reported, exitCode, fnVars>>

CreateInstance ==
    /\ pc = "createInstance"
    /\ \E availableLayers \in SeqsUpTo(LayerNames, MaxInstalled), result \in VkResults :
        LET supported == checkValidationLayerSupport(validationLayers, availableLayers)
            log == IF enableValidationLayers THEN calls \o LayerQueryLog ELSE calls
        IN
        /\ layerSupport' = IF ~enableValidationLayers THEN "unchecked"
                           ELSE IF supported THEN "supported" ELSE "missing"
        /\ IF enableValidationLayers /\ ~supported
           THEN /\ calls' = log
                /\ Throw(LayersUnavailable)
                /\ UNCHANGED <<h, created>>
           ELSE /\ calls' = Append(log, Call("vkCreateInstance", result))
                /\ IF result # VK_SUCCESS
                   THEN /\ Throw(InstanceFailed)
                        /\ UNCHANGED <<h, created>>
                   ELSE /\ h' = [h EXCEPT !["instance"] = "live"]
                        /\ created' = Append(created, "instance")
                        /\ Advance("InstanceReady", "setupDebugMessenger")
    /\ UNCHANGED <<enableValidationLayers, physicalDevice, devices, checked, queueBinding,
                   released, shouldClose, polls, cleanupStep, reported, exitCode, fnVars>>

\* ------------------------------------- CreateDebugUtilsMessengerEXT (30-45)
\* resolved: vkGetInstanceProcAddr returned an entry point; driverResult: what
\* that entry point returns when it is called
CreateDebugUtilsMessengerEXT_AssumeResolved(resolved, driverResult) ==
    IF resolved THEN driverResult ELSE VK_SUCCESS

CreateDebugUtilsMessengerEXT(resolved, driverResult) ==
    IF resolved THEN driverResult ELSE VK_ERROR_EXTENSION_NOT_PRESENT

\* ---------------------------------------------- setupDebugMessenger (201-213)
\* line 203: the early return
SkipDebugMessenger_Never == FALSE

SkipDebugMessenger == ~enableValidationLayers

SetupDebugMessenger ==
    /\ pc = "setupDebugMessenger"
    /\ IF SkipDebugMessenger
       THEN /\ pc' = "pickPhysicalDevice"
            /\ UNCHANGED <<state, trace, exception, h, created, calls>>
       ELSE \E resolved \in BOOLEAN, driverResult \in VkResults :
            LET result == CreateDebugUtilsMessengerEXT(resolved, driverResult)
                lookup == Call("vkGetInstanceProcAddr(vkCreateDebugUtilsMessengerEXT)",
                               IF resolved THEN "func" ELSE "nullptr")
            IN
            /\ calls' = calls \o <<lookup>> \o
                        (IF resolved
                         THEN <<Call("vkCreateDebugUtilsMessengerEXT", driverResult)>>
                         ELSE <<>>)
            /\ IF result # VK_SUCCESS
               THEN /\ Throw(MessengerFailed)
                    /\ UNCHANGED <<h, created>>
               ELSE /\ h' = [h EXCEPT !["debugMessenger"] = "live"]
                    /\ created' = Append(created, "debugMessenger")
                    /\ Advance("DiagnosticsReady", "pickPhysicalDevice")
    /\ UNCHANGED <<enableValidationLayers, physicalDevice, devices, checked, queueBinding,
                   layerSupport, released, shouldClose, polls, cleanupStep, reported,
                   exitCode, fnVars>>

\* ----------------------------------------------- pickPhysicalDevice (218-247)
\* the two vkGetPhysicalDeviceQueueFamilyProperties calls of one
\* findQueueFamilies call (lines 319 and 322)
FamilyQueryLog ==
    <<Call("vkGetPhysicalDeviceQueueFamilyProperties", "count"),
      Call("vkGetPhysicalDeviceQueueFamilyProperties", "list")>>

RECURSIVE Repeat(_, _)
Repeat(log, n) == IF n = 0 THEN <<>> ELSE log \o Repeat(log, n - 1)

\* line 224: the driver reported no device
NoDevices_Never(deviceCount) == FALSE

NoDevices(deviceCount) == deviceCount = 0

PickPhysicalDevice ==
    /\ pc = "pickPhysicalDevice"
    /\ \E reportedDevices \in RunDeviceLists :
        LET picked == SelectDevice(reportedDevices, 1, physicalDevice, <<>>)
            count == Call("vkEnumeratePhysicalDevices", "count")
        IN
        /\ devices' = reportedDevices
        /\ IF NoDevices(Len(reportedDevices))
           THEN /\ calls' = Append(calls, count)
                /\ Throw(NoDeviceFound)
                /\ UNCHANGED <<physicalDevice, checked>>
           ELSE /\ calls' = calls \o <<count, Call("vkEnumeratePhysicalDevices", "list")>>
                              \o Repeat(FamilyQueryLog, Len(picked.checked))
                /\ physicalDevice' = picked.physicalDevice
                /\ checked' = picked.checked
                /\ IF picked.physicalDevice = VK_NULL_HANDLE
                   THEN Throw(NoSuitableDevice)
                   ELSE Advance("DeviceSelected", "createLogicalDevice")
    /\ UNCHANGED <<enableValidationLayers, h, queueBinding, layerSupport, created, released,
                   shouldClose, polls, cleanupStep, reported, exitCode, fnVars>>

\* ---------------------------------------------- createLogicalDevice (250-302)
\* lines 295-301: the queue handle is fetched only after vkCreateDevice succeeded
CreateLogicalDevice ==
    /\ pc = "createLogicalDevice"
    /\ LET indices == findQueueFamilies(devices[physicalDevice]) IN
       IF ~indices.has_value
       THEN /\ calls' = calls \o FamilyQueryLog
            /\ Throw(BadOptionalAccess)
            /\ UNCHANGED <<h, created, queueBinding>>
       ELSE \E result \in VkResults :
            IF result # VK_SUCCESS
            THEN /\ calls' = calls \o FamilyQueryLog \o <<Call("vkCreateDevice", result)>>
                 /\ Throw(DeviceFailed)
                 /\ UNCHANGED <<h, created, queueBinding>>
            ELSE /\ calls' = calls \o FamilyQueryLog
                               \o <<Call("vkCreateDevice", result),
                                    Call("vkGetDeviceQueue", "queue")>>
                 /\ h' = [h EXCEPT !["device"] = "live", !["graphicsQueue"] = "live"]
                 /\ created' = Append(created, "device")
                 /\ queueBinding' = <<indices.value, 0>>
                 /\ Advance("LogicalDeviceReady", "mainLoop")
    /\ UNCHANGED <<enableValidationLayers, physicalDevice, devices, checked, layerSupport,
                   released, shouldClose, polls, cleanupStep, reported, exitCode, fnVars>>

\* --------------------------------------------------------- mainLoop (114-120)
\* run() calls mainLoop() (line 80)
EnterMainLoop ==
    /\ pc = "mainLoop"
    /\ Advance("Running", "mainLoopTest")
    /\ UNCHANGED <<enableValidationLayers, h, physicalDevice, devices, checked, queueBinding,
                   layerSupport, created, released, calls, shouldClose, polls, cleanupStep,
                   reported, exitCode, fnVars>>

\* what glfwWindowShouldClose(window) can return: the close flag of a window
\* that exists; anything when window is NULL (the call is then undefined)
CloseSignalValues == IF h["window"] = "live" THEN {shouldClose} ELSE BOOLEAN

\* line 116 reads FALSE, line 118 polls; handling the events may set the close
\* flag of the window, when there is a window
MainLoopPoll ==
    /\ pc = "mainLoopTest"
    /\ FALSE \in CloseSignalValues
    /\ \E closeRequested \in (IF h["window"] = "live" THEN BOOLEAN ELSE {FALSE}) :
           shouldClose' = (shouldClose \/ closeRequested)
    /\ polls' = IF polls < MaxPolls THEN polls + 1 ELSE polls
    /\ UNCHANGED <<enableValidationLayers, pc, state, trace, h, physicalDevice, devices,
                   checked, queueBinding, layerSupport, created, released, calls,
                   cleanupStep, exception, reported, exitCode, fnVars>>

\* line 116 reads TRUE: mainLoop() returns and run() calls cleanup() (line 81)
MainLoopExit_Unconditional ==
    /\ pc = "mainLoopTest"
    /\ Advance("TearingDown", "cleanup")
    /\ UNCHANGED <<enableValidationLayers, h, physicalDevice, devices, checked, queueBinding,
                   layerSupport, created, released, calls, shouldClose, polls, cleanupStep,
                   reported, exitCode, fnVars>>

MainLoopExit ==
    /\ pc = "mainLoopTest"
    /\ TRUE \in CloseSignalValues
    /\ Advance("TearingDown", "cleanup")
    /\ UNCHANGED <<enableValidationLayers, h, physicalDevice, devices, checked, queueBinding,
                   layerSupport, created, released, calls, shouldClose, polls, cleanupStep,
                   reported, exitCode, fnVars>>

\* line 116 with window == NULL: the library dereferences the pointer and the
\* process may end abnormally; main() never returns
MainLoopCrash ==
    /\ pc = "mainLoopTest"
    /\ h["window"] # "live"
    /\ pc' = "crashed"
    /\ UNCHANGED <<enableValidationLayers, state, trace, h, physicalDevice, devices,
                   checked, queueBinding, layerSupport, created, released, calls,
                   shouldClose, polls, cleanupStep, exception, reported, exitCode, fnVars>>

\* ---------------------------------------------------------- cleanup (123-135)
CleanupSequence_InstanceFirst ==
    <<"vkDestroyInstance", "vkDestroyDevice", "DestroyDebugUtilsMessengerEXT",
      "glfwDestroyWindow", "glfwTerminate">>

CleanupSequence ==
    <<"vkDestroyDevice", "DestroyDebugUtilsMessengerEXT", "vkDestroyInstance",
      "glfwDestroyWindow", "glfwTerminate">>

\* the handle a release call is made on
Target(fn) ==
    CASE fn = "vkDestroyDevice" -> "device"
      [] fn = "DestroyDebugUtilsMessengerEXT" -> "debugMessenger"
      [] fn = "vkDestroyDebugUtilsMessengerEXT" -> "debugMessenger"
      [] fn = "vkDestroyInstance" -> "instance"
      [] fn = "glfwDestroyWindow" -> "window"
      [] fn = "glfwTerminate" -> "glfw"

\* the driver or library releases a live handle; the queues of a logical
\* device go with it. A call on a handle that is not live releases nothing.
Release(fn) ==
    LET t == Target(fn) IN
    IF h[t] # "live"
    THEN /\ UNCHANGED <<h, released>>
         /\ calls' = Append(calls, Call(fn, h[t]))
    ELSE /\ h' = [x \in Handles |->
                    IF x = t \/ (t = "device" /\ x = "graphicsQueue" /\ h[x] = "live")
                    THEN "released" ELSE h[x]]
         /\ released' = Append(released, t)
         /\ calls' = Append(calls, Call(fn, "live"))

\* DestroyDebugUtilsMessengerEXT (49-59), called only under line 127
DestroyDebugUtilsMessengerEXT_NoNullCheck ==
    \E resolved \in BOOLEAN :
        /\ h' = [h EXCEPT !["debugMessenger"] = "released"]
        /\ released' = Append(released, "debugMessenger")
        /\ calls' = calls
               \o (IF resolved THEN <<>>
                   ELSE <<Call("vkGetInstanceProcAddr(vkDestroyDebugUtilsMessengerEXT)",
                               "nullptr")>>)
               \o <<Call("vkDestroyDebugUtilsMessengerEXT", h["debugMessenger"])>>

DestroyDebugUtilsMessengerEXT ==
    \E resolved \in BOOLEAN :
        IF resolved
        THEN /\ Release("vkDestroyDebugUtilsMessengerEXT")
        ELSE /\ calls' = Append(calls,
                    Call("vkGetInstanceProcAddr(vkDestroyDebugUtilsMessengerEXT)", "nullptr"))
             /\ UNCHANGED <<h, released>>

CleanupStep ==
    /\ pc = "cleanup"
    /\ cleanupStep <= Len(CleanupSequence)
    /\ LET fn == CleanupSequence[cleanupStep] IN
       IF fn = "DestroyDebugUtilsMessengerEXT"
       THEN IF enableValidationLayers
            THEN DestroyDebugUtilsMessengerEXT
            ELSE UNCHANGED <<h, released, calls>>
       ELSE Release(fn)
    /\ cleanupStep' = cleanupStep + 1
    /\ IF cleanupStep = Len(CleanupSequence)
       THEN /\ pc' = "return"
            /\ state' = IF exception = NoException THEN "Terminated" ELSE state
            /\ trace' = IF exception = NoException THEN Append(trace, "Terminated") ELSE trace
       ELSE UNCHANGED <<pc, state, trace>>
    /\ UNCHANGED <<enableValidationLayers, physicalDevice, devices, checked, queueBinding,
                   layerSupport, created, shouldClose, polls, exception, reported,
                   exitCode, fnVars>>

\* ------------------------------------------------------------- main (418-433)
\* line 432: run() returned
MainReturn ==
    /\ pc = "return"
    /\ exitCode' = <<EXIT_SUCCESS>>
    /\ pc' = "done"
    /\ UNCHANGED <<enableValidationLayers, state, trace, h, physicalDevice, devices,
                   checked, queueBinding, layerSupport, created, released, calls,
                   shouldClose, polls, cleanupStep, exception, reported, fnVars>>

\* lines 426-430: the handler prints what() and returns EXIT_FAILURE
MainCatch_Swallow ==
    /\ pc = "catch"
    /\ exitCode' = <<EXIT_SUCCESS>>
    /\ pc' = "done"
    /\ UNCHANGED <<enableValidationLayers, state, trace, h, physicalDevice, devices,
                   checked, queueBinding, layerSupport, created, released, calls,
                   shouldClose, polls, cleanupStep, exception, reported, fnVars>>

MainCatch ==
    /\ pc = "catch"
    /\ reported' = exception
    /\ exitCode' = <<EXIT_FAILURE>>
    /\ pc' = "done"
    /\ UNCHANGED <<enableValidationLayers, state, trace, h, physicalDevice, devices,
                   checked, queueBinding, layerSupport, created, released, calls,
                   shouldClose, polls, cleanupStep, exception, fnVars>>

Next ==
    \/ InitWindow
    \/ CreateInstance
    \/ SetupDebugMessenger
    \/ PickPhysicalDevice
    \/ CreateLogicalDevice
    \/ EnterMainLoop
    \/ MainLoopPoll
    \/ MainLoopExit
    \/ MainLoopCrash
    \/ CleanupStep
    \/ MainReturn
    \/ MainCatch

Spec == Init /\ [][Next]_vars

\* main() runs on one thread that nothing suspends: a step that can be taken
\* is taken
FairSpec == Spec /\ WF_vars(Next)

\* ------------------------------------------- single calls of the pure functions
\* findQueueFamilies applied to one queue-family table
InitQueue ==
    /\ enableValidationLayers = FALSE
    /\ RunInit("call")
    /\ fnArgs \in {<<t>> : t \in QueueTables(QueueFlagValues, MaxFamilies)}
    /\ fnResult = <<>>
    /\ fnReturned = FALSE

CallFindQueueFamilies ==
    /\ ~fnReturned
    /\ fnResult' = <<ScanQueueFamilies(fnArgs[1], 1, 0, EmptyIndices)>>
    /\ fnReturned' = TRUE
    /\ UNCHANGED <<runVars, fnArgs>>

SpecQueue == InitQueue /\ [][CallFindQueueFamilies]_vars

\* the selection loop of pickPhysicalDevice applied to one device list
InitPick ==
    /\ enableValidationLayers = FALSE
    /\ RunInit("call")
    /\ fnArgs \in {<<d>> : d \in SeqsUpTo(QueueTables(DeviceFlagValues, MaxDevFamilies),
                                          MaxDevices)}
    /\ fnResult = <<>>
    /\ fnReturned = FALSE

CallSelectDevice ==
    /\ ~fnReturned
    /\ fnResult' = <<SelectDevice(fnArgs[1], 1, VK_NULL_HANDLE, <<>>)>>
    /\ fnReturned' = TRUE
    /\ UNCHANGED <<runVars, fnArgs>>

SpecPick == InitPick /\ [][CallSelectDevice]_vars

\* checkValidationLayerSupport applied to a requested and an installed list
InitLayers ==
    /\ enableValidationLayers = TRUE
    /\ RunInit("call")
    /\ fnArgs \in {<<l, a>> : l \in SeqsUpTo(LayerNames, MaxRequested),
                             a \in SeqsUpTo(LayerNames, MaxInstalled)}
    /\ fnResult = <<>>
    /\ fnReturned = FALSE

CallCheckValidationLayerSupport ==
    /\ ~fnReturned
    /\ fnResult' = <<checkValidationLayerSupport(fnArgs[1], fnArgs[2])>>
    /\ fnReturned' = TRUE
    /\ UNCHANGED <<runVars, fnArgs>>

SpecLayers == InitLayers /\ [][CallCheckValidationLayerSupport]_vars

\* ---------------------------------------------- getRequiredExtensions (347-365)
VK_EXT_DEBUG_UTILS_EXTENSION_NAME == "VK_EXT_debug_utils"
VK_KHR_PORTABILITY_ENUMERATION_EXTENSION_NAME == "VK_KHR_portability_enumeration"
VK_KHR_GET_PHYSICAL_DEVICE_PROPERTIES_2_EXTENSION_NAME ==
    "VK_KHR_get_physical_device_properties2"

\* names glfwGetRequiredInstanceExtensions may return; one of them is also
\* pushed by getRequiredExtensions itself
GlfwExtensionNames == {"VK_KHR_surface", "VK_EXT_metal_surface", "VK_EXT_debug_utils"}

\* push_back only of names not yet in the vector
RECURSIVE PushBackNew(_, _)
PushBackNew(extensions, names) ==
    IF names = <<>> THEN extensions
    ELSE PushBackNew(IF Head(names) \in Range(extensions) THEN extensions
                     ELSE Append(extensions, Head(names)),
                     Tail(names))

getRequiredExtensions_Deduplicated(glfwExtensions, enabled) ==
    IF enabled
    THEN PushBackNew(glfwExtensions,
                     <<VK_EXT_DEBUG_UTILS_EXTENSION_NAME,
                       VK_KHR_PORTABILITY_ENUMERATION_EXTENSION_NAME,
                       VK_KHR_GET_PHYSICAL_DEVICE_PROPERTIES_2_EXTENSION_NAME>>)
    ELSE glfwExtensions

\* line 353 copies the windowing list, lines 355-362 push three names
getRequiredExtensions(glfwExtensions, enabled) ==
    IF enabled
    THEN Append(Append(Append(glfwExtensions, VK_EXT_DEBUG_UTILS_EXTENSION_NAME),
                       VK_KHR_PORTABILITY_ENUMERATION_EXTENSION_NAME),
                VK_KHR_GET_PHYSICAL_DEVICE_PROPERTIES_2_EXTENSION_NAME)
    ELSE glfwExtensions

\* getRequiredExtensions applied to one windowing extension list
InitExtensions ==
    /\ enableValidationLayers \in BOOLEAN
    /\ RunInit("call")
    /\ fnArgs \in {<<e>> : e \in SeqsUpTo(GlfwExtensionNames, MaxExtensions)}
    /\ fnResult = <<>>
    /\ fnReturned = FALSE

CallGetRequiredExtensions ==
    /\ ~fnReturned
    /\ fnResult' = <<getRequiredExtensions(fnArgs[1], enableValidationLayers)>>
    /\ fnReturned' = TRUE
    /\ UNCHANGED <<runVars, fnArgs>>

SpecExtensions == InitExtensions /\ [][CallGetRequiredExtensions]_vars

\* ================================================================== claims
ReleaseCalls ==
    {"vkDestroyDevice", "vkDestroyDebugUtilsMessengerEXT", "vkDestroyInstance",
     "glfwDestroyWindow", "glfwTerminate"}

Last(s) == s[Len(s)]

Front(s) == SubSeq(s, 1, Len(s) - 1)

\* C1: on a normal run cleanup releases the handles in the exact reverse of
\* their creation order (device, diagnostics channel if created, instance,
\* window, windowing library), and no handle is ever released before a handle
\* created after it.
C1_ReverseTeardown ==
    /\ \A i \in 1..Len(created), j \in 1..Len(created) :
          (i < j /\ created[i] \in Range(released)) => created[j] \in Range(released)
    /\ state = "Terminated" => released = Reverse(created)

\* C2: in every reachable state handle lifetimes are nested: a live
\* diagnostics channel implies a live instance, a live logical device implies
\* a live instance, a held queue handle implies a live logical device.
C2_NestedLifetimes ==
    /\ h["debugMessenger"] = "live" => h["instance"] = "live"
    /\ h["device"] = "live" => h["instance"] = "live"
    /\ h["graphicsQueue"] = "live" => h["device"] = "live"

\* C3: the states entered in a run are a prefix of Uninitialized, WindowReady,
\* InstanceReady, [DiagnosticsReady], DeviceSelected, LogicalDeviceReady,
\* Running, TearingDown, Terminated, optionally followed by the error exit;
\* DiagnosticsReady is on the path iff diagnostics mode is enabled.
StateSequence ==
    <<"Uninitialized", "WindowReady", "InstanceReady">>
    \o (IF enableValidationLayers THEN <<"DiagnosticsReady">> ELSE <<>>)
    \o <<"DeviceSelected", "LogicalDeviceReady", "Running", "TearingDown", "Terminated">>

C3_LinearStates ==
    /\ state = Last(trace)
    /\ \/ IsPrefix(trace, StateSequence)
       \/ /\ Last(trace) = "ErrorExit"
          /\ IsPrefix(Front(trace), StateSequence)
    /\ "DeviceSelected" \in Range(trace) =>
          ("DiagnosticsReady" \in Range(trace) <=> enableValidationLayers)
    /\ "DiagnosticsReady" \in Range(trace) => enableValidationLayers

C3_Witness ==
    /\ enableValidationLayers
    /\ state = "Terminated"
    /\ trace = StateSequence

\* C4: when a bootstrap step fails the run goes straight to error propagation:
\* TearingDown is never entered, no release call is made, and every handle
\* acquired before the failure is still unreleased when the process exits.
C4_NoCleanupOnFailure ==
    exception # NoException =>
        /\ state = "ErrorExit"
        /\ "TearingDown" \notin Range(trace)
        /\ Fns(calls) \cap ReleaseCalls = {}
        /\ released = <<>>
        /\ \A k \in 1..Len(created) : h[created[k]] = "live"

C4_Witness ==
    /\ pc = "done"
    /\ exception = DeviceFailed
    /\ created = <<"glfw", "window", "instance", "debugMessenger">>
    /\ \A x \in Range(created) : h[x] = "live"

\* C5: main returns 0 exactly when the run reached Terminated through the
\* normal teardown and non-zero exactly when a bootstrap step raised an error;
\* a raised error reaches main's handler and is reported there, and no step
\* of the run executes after it was raised.
C5_ExitCode ==
    /\ pc = "done" => exitCode \in {<<0>>, <<1>>}
    /\ exitCode = <<0>> <=> (pc = "done" /\ state = "Terminated")
    /\ exitCode = <<1>> <=> (pc = "done" /\ exception # NoException)
    /\ (pc = "done" /\ exception # NoException) => reported = exception
    /\ exception # NoException => pc \in {"catch", "done"}
    /\ exception = NoException => reported = NoException

C5_Witness ==
    /\ pc = "done"
    /\ exitCode = <<1>>
    /\ reported = NoSuitableDevice

\* C6: with diagnostics enabled, once creation of the diagnostics channel has
\* failed (entry point not resolved, or the entry point returned an error)
\* DeviceSelected is never reached and no device enumeration, queue-family
\* query or logical-device creation is made.
MessengerCreationFailed ==
    \E k \in 1..Len(calls) :
        \/ /\ calls[k].fn = "vkGetInstanceProcAddr(vkCreateDebugUtilsMessengerEXT)"
           /\ calls[k].result = "nullptr"
        \/ /\ calls[k].fn = "vkCreateDebugUtilsMessengerEXT"
           /\ calls[k].result # "VK_SUCCESS"

C6_NoDeviceAfterMessengerFailure ==
    (enableValidationLayers /\ MessengerCreationFailed) =>
        /\ "DeviceSelected" \notin Range(trace)
        /\ Fns(calls) \cap {"vkEnumeratePhysicalDevices",
                            "vkGetPhysicalDeviceQueueFamilyProperties",
                            "vkCreateDevice", "vkGetDeviceQueue"} = {}
        /\ physicalDevice = 0
        /\ h["device"] = "unset"

C6_Witness ==
    /\ pc = "done"
    /\ enableValidationLayers
    /\ \E k \in 1..Len(calls) :
          /\ calls[k].fn = "vkGetInstanceProcAddr(vkCreateDebugUtilsMessengerEXT)"
          /\ calls[k].result = "nullptr"
    /\ exception = MessengerFailed

\* C7 as stated: when checkValidationLayerSupport returns false with
\* diagnostics enabled, instance creation fails with the layers-unavailable
\* error before any call that would create a handle has been made.
HandleCreatingCalls ==
    {"glfwCreateWindow", "vkCreateInstance", "vkCreateDebugUtilsMessengerEXT",
     "vkCreateDevice"}

C7_NoHandleCallBeforeLayerError ==
    layerSupport = "missing" =>
        /\ exception = LayersUnavailable
        /\ Fns(calls) \cap HandleCreatingCalls = {}

\* C7 amended: when checkValidationLayerSupport returns false with diagnostics
\* enabled, createInstance fails with the layers-unavailable error before any
\* driver call that would create a handle: vkCreateInstance is never issued
\* and no driver handle exists; the windowing library and the window, which
\* initWindow created before, are the only handles acquired.
C7_NoDriverHandleCallBeforeLayerError ==
    layerSupport = "missing" =>
        /\ enableValidationLayers
        /\ exception = LayersUnavailable
        /\ Fns(calls) \cap (HandleCreatingCalls \ {"glfwCreateWindow"}) = {}
        /\ Range(created) \subseteq {"glfw", "window"}
        /\ \A x \in {"instance", "debugMessenger", "device", "graphicsQueue"} :
              h[x] = "unset"

C7_Witness ==
    /\ layerSupport = "missing"
    /\ pc = "done"
    /\ h["window"] = "live"
    /\ "glfwCreateWindow" \in Fns(calls)

\* the graphics bit is set in a capability mask
HasGraphicsBit(flags) == flags % 2 = 1

\* C8: checkValidationLayerSupport returns true iff every requested name is
\* exactly the name of an installed layer; taking any one required layer out
\* of the installed list makes the result false.
Without(s, name) == SelectSeq(s, LAMBDA x : x # name)

C8_LayerSubset ==
    fnReturned =>
        LET layers == fnArgs[1]
            availableLayers == fnArgs[2]
        IN
        /\ fnResult[1] <=> Range(layers) \subseteq Range(availableLayers)
        /\ \A name \in Range(layers) :
              ~checkValidationLayerSupport(layers, Without(availableLayers, name))

C8_Witness ==
    /\ fnReturned
    /\ Len(fnArgs[1]) = 2
    /\ fnArgs[1][1] # fnArgs[1][2]
    /\ fnResult[1] = TRUE

\* C9: findQueueFamilies returns the smallest index whose flags include the
\* graphics bit, an empty holder iff no family has the bit, and examines no
\* family after the first match; [compute, graphics, graphics] gives index 1.
C9_FirstGraphicsFamily ==
    fnReturned =>
        LET queueFamilies == fnArgs[1]
            indices == fnResult[1].indices
            matches == {k \in 1..Len(queueFamilies) : HasGraphicsBit(queueFamilies[k])}
        IN
        /\ indices.has_value <=> matches # {}
        /\ indices.has_value =>
              /\ indices.value + 1 \in matches
              /\ \A k \in matches : indices.value + 1 <= k
              /\ fnResult[1].examined = indices.value + 1
        /\ ~indices.has_value => fnResult[1].examined = Len(queueFamilies)
        /\ queueFamilies = <<2, 1, 1>> => indices = [has_value |-> TRUE, value |-> 1]

C9_Witness ==
    /\ fnReturned
    /\ fnArgs[1] = <<2, 1, 1>>
    /\ fnResult[1].indices.value = 1
    /\ fnResult[1].examined = 2

\* C10: the selection loop retains the first device, in the order the driver
\* reported, that has a graphics-capable queue family and calls the
\* suitability check on no device after it; for [unsuitable, suitable,
\* suitable] it retains index 1 and never checks index 2.
SuitableTable(queueFamilies) ==
    \E k \in 1..Len(queueFamilies) : HasGraphicsBit(queueFamilies[k])

C10_FirstSuitableDevice ==
    fnReturned =>
        LET reportedDevices == fnArgs[1]
            picked == fnResult[1]
            suitable == {k \in 1..Len(reportedDevices) : SuitableTable(reportedDevices[k])}
        IN
        /\ picked.physicalDevice = 0 <=> suitable = {}
        /\ picked.physicalDevice # 0 =>
              /\ picked.physicalDevice \in suitable
              /\ \A k \in suitable : picked.physicalDevice <= k
              /\ picked.checked = [k \in 1..picked.physicalDevice |-> k]
        /\ picked.physicalDevice = 0 =>
              picked.checked = [k \in 1..Len(reportedDevices) |-> k]

C10_Witness ==
    /\ fnReturned
    /\ fnArgs[1] = <<<<2>>, <<1>>, <<1>>>>
    /\ fnResult[1].physicalDevice - 1 = 1
    /\ fnResult[1].checked = <<1, 2>>

\* C11: when the driver reports zero physical devices, pickPhysicalDevice
\* fails with the no-device error and makes no further device call: the list
\* is not fetched, no queue family is queried, no logical device is created.
ZeroDevicesReported ==
    /\ Call("vkEnumeratePhysicalDevices", "count") \in Range(calls)
    /\ Len(devices) = 0

C11_NoDeviceFound ==
    ZeroDevicesReported =>
        /\ exception = NoDeviceFound
        /\ Call("vkEnumeratePhysicalDevices", "list") \notin Range(calls)
        /\ Fns(calls) \cap {"vkGetPhysicalDeviceQueueFamilyProperties", "vkCreateDevice",
                            "vkGetDeviceQueue"} = {}
        /\ calls[Len(calls)] = Call("vkEnumeratePhysicalDevices", "count")
        /\ checked = <<>>
        /\ physicalDevice = 0
        /\ h["device"] = "unset"

C11_Witness ==
    /\ ZeroDevicesReported
    /\ pc = "done"
    /\ reported = NoDeviceFound

\* C12: when the driver reports at least one device and none has a
\* graphics-capable queue family, selection fails with the no-suitable-device
\* error, no physical device is retained and LogicalDeviceReady is never
\* reached.
NoneSuitableReported ==
    /\ Len(devices) > 0
    /\ \A k \in 1..Len(devices) : ~SuitableTable(devices[k])

C12_NoSuitableDevice ==
    NoneSuitableReported =>
        /\ exception = NoSuitableDevice
        /\ physicalDevice = 0
        /\ checked = [k \in 1..Len(devices) |-> k]
        /\ "DeviceSelected" \notin Range(trace)
        /\ "LogicalDeviceReady" \notin Range(trace)
        /\ Fns(calls) \cap {"vkCreateDevice", "vkGetDeviceQueue"} = {}
        /\ h["device"] = "unset"

C12_Witness ==
    /\ NoneSuitableReported
    /\ Len(devices) = 2
    /\ pc = "done"
    /\ reported = NoSuitableDevice

\* C13: getRequiredExtensions returns the windowing library's list as an
\* unchanged prefix, followed by the debug-utils extension and the two
\* portability extensions iff diagnostics mode is enabled; nothing is
\* reordered and nothing is deduplicated.
Occurrences(s, x) == Cardinality({k \in 1..Len(s) : s[k] = x})

C13_ExtensionsAppended ==
    fnReturned =>
        LET glfwExtensions == fnArgs[1]
            extensions == fnResult[1]
            n == Len(glfwExtensions)
        IN
        /\ IsPrefix(glfwExtensions, extensions)
        /\ enableValidationLayers =>
              /\ Len(extensions) = n + 3
              /\ extensions[n + 1] = "VK_EXT_debug_utils"
              /\ extensions[n + 2] = "VK_KHR_portability_enumeration"
              /\ extensions[n + 3] = "VK_KHR_get_physical_device_properties2"
              /\ Occurrences(extensions, "VK_EXT_debug_utils")
                    = Occurrences(glfwExtensions, "VK_EXT_debug_utils") + 1
        /\ ~enableValidationLayers => extensions = glfwExtensions

C13_Witness ==
    /\ fnReturned
    /\ enableValidationLayers
    /\ fnArgs[1] = <<"VK_EXT_debug_utils", "VK_KHR_surface">>
    /\ Occurrences(fnResult[1], "VK_EXT_debug_utils") = 2

\* C14: with diagnostics mode disabled no diagnostics channel is ever created,
\* resolved or destroyed; and with one suitable device whose only
\* graphics-capable family is at index 0 the bootstrap reaches Running with
\* exactly one queue handle, fetched for family 0, slot 0.
DiagnosticsCalls ==
    {"vkGetInstanceProcAddr(vkCreateDebugUtilsMessengerEXT)",
     "vkCreateDebugUtilsMessengerEXT",
     "vkGetInstanceProcAddr(vkDestroyDebugUtilsMessengerEXT)",
     "vkDestroyDebugUtilsMessengerEXT"}

OneDeviceFamilyZero ==
    /\ Len(devices) = 1
    /\ Len(devices[1]) >= 1
    /\ HasGraphicsBit(devices[1][1])
    /\ \A k \in 2..Len(devices[1]) : ~HasGraphicsBit(devices[1][k])

CallCount(fn) == Cardinality({k \in 1..Len(calls) : calls[k].fn = fn})

C14_DiagnosticsDisabled ==
    ~enableValidationLayers =>
        /\ h["debugMessenger"] = "unset"
        /\ "debugMessenger" \notin (Range(created) \cup Range(released))
        /\ Fns(calls) \cap DiagnosticsCalls = {}
        /\ "DiagnosticsReady" \notin Range(trace)
        /\ OneDeviceFamilyZero =>
              /\ exception \in {NoException, DeviceFailed}
              /\ physicalDevice = 1
              /\ state = "Running" =>
                    /\ h["graphicsQueue"] = "live"
                    /\ h["device"] = "live"
                    /\ queueBinding = <<0, 0>>
                    /\ CallCount("vkGetDeviceQueue") = 1
                    /\ CallCount("vkCreateDevice") = 1

C14_Witness ==
    /\ ~enableValidationLayers
    /\ OneDeviceFamilyZero
    /\ state = "Running"
    /\ polls > 0
    /\ queueBinding = <<0, 0>>
    /\ h["debugMessenger"] = "unset"

\* C15: when a diagnostics entry point cannot be resolved from the instance,
\* the create path returns the extension-not-present error and the bootstrap
\* is aborted; the destroy path makes no driver call and raises no error, and
\* teardown goes on to destroy the instance and reach Terminated.
CreateUnresolved ==
    Call("vkGetInstanceProcAddr(vkCreateDebugUtilsMessengerEXT)", "nullptr") \in Range(calls)

DestroyUnresolved ==
    Call("vkGetInstanceProcAddr(vkDestroyDebugUtilsMessengerEXT)", "nullptr") \in Range(calls)

C15_UnresolvedEntryPoints ==
    /\ \A r \in VkResults :
          CreateDebugUtilsMessengerEXT(FALSE, r) = "VK_ERROR_EXTENSION_NOT_PRESENT"
    /\ CreateUnresolved =>
          /\ exception = MessengerFailed
          /\ state = "ErrorExit"
          /\ "vkCreateDebugUtilsMessengerEXT" \notin Fns(calls)
          /\ h["debugMessenger"] = "unset"
    /\ DestroyUnresolved =>
          /\ "vkDestroyDebugUtilsMessengerEXT" \notin Fns(calls)
          /\ "debugMessenger" \notin Range(released)
          /\ exception = NoException
          /\ reported = NoException
          /\ pc \in {"cleanup", "return", "done"}
          /\ pc = "cleanup" => ENABLED CleanupStep
          /\ cleanupStep > 3 =>
                /\ h["instance"] = "released"
                /\ "vkDestroyInstance" \in Fns(calls)
          /\ pc \in {"return", "done"} => state = "Terminated"
          /\ pc = "done" => exitCode = <<0>>

C15_Witness ==
    /\ DestroyUnresolved
    /\ pc = "done"
    /\ state = "Terminated"
    /\ h["instance"] = "released"
    /\ exitCode = <<0>>

\* C16: whenever the logical-device step is reached, the queue family index
\* recomputed for the selected device holds a value and is the index the
\* suitability check found (the first graphics-capable family of the unchanged
\* table), so reading it never fails, and the queue handle is fetched for
\* that family.
FirstGraphicsIndex(queueFamilies) ==
    CHOOSE i \in 0..(Len(queueFamilies) - 1) :
        /\ HasGraphicsBit(queueFamilies[i + 1])
        /\ \A j \in 0..(i - 1) : ~HasGraphicsBit(queueFamilies[j + 1])

C16_IndexHoldsValue ==
    /\ exception # BadOptionalAccess
    /\ "DeviceSelected" \in Range(trace) =>
          /\ physicalDevice \in 1..Len(devices)
          /\ SuitableTable(devices[physicalDevice])
          /\ findQueueFamilies(devices[physicalDevice]) =
                [has_value |-> TRUE,
                 value |-> FirstGraphicsIndex(devices[physicalDevice])]
    /\ h["graphicsQueue"] # "unset" =>
          /\ "DeviceSelected" \in Range(trace)
          /\ queueBinding = <<FirstGraphicsIndex(devices[physicalDevice]), 0>>

C16_Witness ==
    /\ state = "Running"
    /\ devices = <<<<2>>, <<2, 1>>>>
    /\ physicalDevice = 2
    /\ queueBinding = <<1, 0>>
    /\ h["device"] = "live"

\* C17: during teardown the destroy operation of the diagnostics channel
\* (DestroyDebugUtilsMessengerEXT) is invoked iff the channel was created
\* earlier in the run, and when it is invoked that happens before the
\* instance is destroyed.
DestroyOperationCalls ==
    {"vkGetInstanceProcAddr(vkDestroyDebugUtilsMessengerEXT)",
     "vkDestroyDebugUtilsMessengerEXT"}

DestroyInvoked == Fns(calls) \cap DestroyOperationCalls # {}

Positions(fns) == {k \in 1..Len(calls) : calls[k].fn \in fns}

C17_MessengerDestroyedBeforeInstance ==
    /\ DestroyInvoked =>
          /\ "debugMessenger" \in Range(created)
          /\ "TearingDown" \in Range(trace)
          /\ Cardinality(Positions(DestroyOperationCalls)) = 1
          /\ \A i \in Positions(DestroyOperationCalls), j \in Positions({"vkDestroyInstance"}) :
                i < j
    /\ "vkDestroyInstance" \in Fns(calls) =>
          (DestroyInvoked <=> "debugMessenger" \in Range(created))
    /\ state = "Terminated" =>
          (DestroyInvoked <=> "debugMessenger" \in Range(created))

C17_Witness ==
    /\ state = "Terminated"
    /\ "debugMessenger" \in Range(created)
    /\ "vkDestroyDebugUtilsMessengerEXT" \in Fns(calls)
    /\ released = <<"device", "debugMessenger", "instance", "window", "glfw">>

\* C18: in Running, while the close signal is not set the loop polls and stays
\* in Running; TearingDown is entered only from Running on a close signal read
\* as set; the signal, once set, stays set, and then the run reaches
\* Terminated when the loop step is fair.
CloseSignalSet == h["window"] \in {"live", "released"} /\ shouldClose

C18_MainLoop ==
    /\ [][(state = "Running" /\ h["window"] = "live" /\ ~shouldClose)
             => (state' = "Running" /\ polls' >= polls)]_vars
    /\ [][(state # "TearingDown" /\ state' = "TearingDown")
             => (state = "Running" /\ TRUE \in CloseSignalValues)]_vars
    /\ [][shouldClose => shouldClose']_vars
    /\ [](shouldClose => CloseSignalSet)
    /\ (CloseSignalSet ~> (state = "Terminated"))

C18_Witness ==
    /\ state = "Terminated"
    /\ polls >= 2
    /\ shouldClose
    /\ "window" \in Range(released)

\* C19: every release call of teardown (logical device, diagnostics channel,
\* instance, window) is made on a handle that was created earlier in the run
\* and is not released yet, and no handle is released twice; the window is
\* included.
HandleReleaseCalls ==
    {"vkDestroyDevice", "vkDestroyDebugUtilsMessengerEXT", "vkDestroyInstance",
     "glfwDestroyWindow"}

C19_ReleasesTargetLiveHandles ==
    /\ \A k \in Positions(HandleReleaseCalls) :
          /\ calls[k].result = "live"
          /\ Target(calls[k].fn) \in Range(created)
    /\ \A i, j \in 1..Len(released) : released[i] = released[j] => i = j

====
